---- MODULE Spec2Model ----
(***************************************************************************)
(* A model of threeML.utils.time_series.time_series.TimeSeries: the        *)
(* background polynomial fit of an event list, its automatic choice of     *)
(* the polynomial grade, and the persistence of the fit.                   *)
(*                                                                         *)
(* Times are integers (seconds).  Log-likelihoods are integers counting    *)
(* half units, so that the likelihood-ratio statistic 2*(L_k - L_k+1) can  *)
(* take the value 9.0 exactly.  An attribute that was never assigned and   *)
(* an optional value are written as sequences: <<>> is "not there" and     *)
(* <<v>> is the value v.                                                   *)
(***************************************************************************)
EXTENDS Integers, Sequences, FiniteSets, TLC

VARIABLES
    user_poly_order,            \* self._user_poly_order
    time_selection_exists,      \* self._time_selection_exists
    poly_fit_exists,            \* self._poly_fit_exists
    fit_method_info,            \* self._fit_method_info
    poly_intervals,             \* self._poly_intervals (optional)
    unbinned,                   \* self._unbinned (optional)
    optimal_polynomial_grade,   \* self._optimal_polynomial_grade (optional)
    polynomials,                \* self._polynomials (optional)
    time_intervals,             \* self._time_intervals (optional, None at first)
    poly_counts,                \* self._poly_counts (optional)
    poly_count_err,             \* self._poly_count_err (optional)
    files,                      \* the file system: file name -> optional HDF store
    open_stores,                \* the files an HDFStore handle is open on
    last,                       \* the last call: what it was and how it ended
    log_likelihoods,            \* the grade selector alone: its input
    best_grade                  \* the grade selector alone: which one ran, its result

vars == <<user_poly_order, time_selection_exists, poly_fit_exists, fit_method_info,
          poly_intervals, unbinned, optimal_polynomial_grade, polynomials,
          time_intervals, poly_counts, poly_count_err, files, open_stores, last,
          log_likelihoods, best_grade>>

----------------------------------------------------------------------------
(* Optional values *)

Undefined == <<>>
Def(v) == <<v>>
IsDef(x) == x # <<>>
Val(x) == x[1]

----------------------------------------------------------------------------
(* The instance under study: the constructor's arguments and the events *)

start_time == 1
stop_time == 3
n_channels == 2
first_channel == 1

\* the events of the subclass: arrival times (non-decreasing) and channels
arrival_times == <<1, 2, 2>>
energies == <<1, 1, 2>>

----------------------------------------------------------------------------
(* Bounds of the model *)

\* how many intervals one call of set_polynomial_fit_interval is given
MaxIntervals == 2
\* how far outside [start_time, stop_time] a user's interval may reach
TimeMargin == 1

UserTimes == (start_time - TimeMargin)..(stop_time + TimeMargin)

\* one interval as the user writes it, 't1-t2' with t1 < t2
UserIntervals == {i \in UserTimes \X UserTimes : i[1] < i[2]}

RECURSIVE IntervalLists(_)
IntervalLists(n) ==
    IF n = 0 THEN {<<>>}
    ELSE LET shorter == IntervalLists(n - 1)
         IN  shorter \cup
             {Append(l, i) : l \in {s \in shorter : Len(s) = n - 1}, i \in UserIntervals}

\* the arguments of set_polynomial_fit_interval: ordered, non-overlapping intervals
IntervalArgs ==
    {l \in IntervalLists(MaxIntervals) :
        \A k \in 1..(Len(l) - 1) : l[k][2] <= l[k + 1][1]}

\* the steps L_k - L_k+1 (in half units) between the log-likelihoods of two grades
LogLikeSteps == {-9, 8, 9}

----------------------------------------------------------------------------
(* Sequences *)

RECURSIVE SumSeq(_)
SumSeq(s) == IF s = <<>> THEN 0 ELSE Head(s) + SumSeq(Tail(s))

\* s[mask]: the entries of s that a boolean mask selects
RECURSIVE Masked(_, _)
Masked(s, mask) ==
    IF s = <<>> THEN <<>>
    ELSE (IF Head(mask) THEN <<Head(s)>> ELSE <<>>) \o Masked(Tail(s), Tail(mask))

\* mask.nonzero()[0]: the 0-based indices of the true entries, ascending
nonzero(mask) ==
    LET RECURSIVE from(_)
        from(k) == IF k > Len(mask) THEN <<>>
                   ELSE (IF mask[k] THEN <<k - 1>> ELSE <<>>) \o from(k + 1)
    IN  from(1)

----------------------------------------------------------------------------
(* The grade selector *)

min_grade == 0
max_grade == 4
delta_threshold == 9

\* a value in the half units the log-likelihoods are counted in
HalfUnits(x) == 2 * x

\* the differences taken the other way round, x[1] - x[0]
delta_loglike_reversed(lls) == [k \in 1..(Len(lls) - 1) |-> 2 * (lls[k + 1] - lls[k])]

\* np.array(map(lambda x: 2 * (x[0] - x[1]), zip(lls[:-1], lls[1:])))
delta_loglike(lls) == [k \in 1..(Len(lls) - 1) |-> 2 * (lls[k] - lls[k + 1])]

\* the selector taking the first grade that passes, mask.nonzero()[0][0] + 1
first_passing_grade(lls) ==
    LET delta == delta_loglike(lls)
        mask  == [k \in 1..Len(delta) |-> delta[k] >= HalfUnits(delta_threshold)]
        idx   == nonzero(mask)
    IN  IF Len(idx) = 0 THEN 0 ELSE idx[1] + 1

\* the binned selector, given the log-likelihoods polyfit returned for grade 0..4
_fit_global_and_determine_optimum_grade(lls) ==
    LET delta == delta_loglike(lls)
        mask  == [k \in 1..Len(delta) |-> delta[k] >= HalfUnits(delta_threshold)]
        idx   == nonzero(mask)
    IN  IF Len(idx) = 0 THEN 0 ELSE idx[Len(idx)] + 1

\* the unbinned selector, given the log-likelihoods unbinned_polyfit returned
_unbinned_fit_global_and_determine_optimum_grade(lls) ==
    LET delta == delta_loglike(lls)
        mask  == [k \in 1..Len(delta) |-> delta[k] >= HalfUnits(delta_threshold)]
        idx   == nonzero(mask)
    IN  IF Len(idx) = 0 THEN 0 ELSE idx[Len(idx)] + 1

\* the log-likelihoods the regressor can return for the grades 0..4
RECURSIVE LogLikesFrom(_, _)
LogLikesFrom(lls, n) ==
    IF n = 0 THEN {lls}
    ELSE UNION {LogLikesFrom(Append(lls, lls[Len(lls)] - s), n - 1) : s \in LogLikeSteps}

LogLikeVectors == LogLikesFrom(<<0>>, max_grade - min_grade)

----------------------------------------------------------------------------
(* The collaborators of the class: exposure, regression, time intervals *)

\* the subclass's exposure_over_interval(tmin, tmax): no dead time
exposure_over_interval(tmin, tmax) == tmax - tmin

\* a Polynomial of the given grade: grade + 1 coefficients and their covariance
Polynomial(c0, grade, var) ==
    [coefficients |-> [i \in 1..(grade + 1) |-> IF i = 1 THEN c0 ELSE 0],
     covariance_matrix |->
        [i \in 1..(grade + 1) |-> [j \in 1..(grade + 1) |-> IF i = j THEN var ELSE 0]]]

\* polyfit(x, y, grade, exposure): the polynomial of the binned regression
polyfit(x, y, grade, exposure) == Polynomial(SumSeq(y), grade, SumSeq(exposure))

\* unbinned_polyfit(events, grade, t_start, t_stop, exposure)
unbinned_polyfit(events, grade, t_start, t_stop, exposure) ==
    Polynomial(Len(events), grade, exposure)

\* Polynomial.from_previous_fit(coefficients, covariance)
from_previous_fit(coeff, cov) == [coefficients |-> coeff, covariance_matrix |-> cov]

RECURSIVE Power(_, _)
Power(b, n) == IF n = 0 THEN 1 ELSE b * Power(b, n - 1)

\* Polynomial.integral(a, b): the sum of c_i * (b^i - a^i) / i
integral(poly, a, b) ==
    SumSeq([i \in 1..Len(poly.coefficients) |->
                (poly.coefficients[i] * (Power(b, i) - Power(a, i))) \div i])

\* the string '': no 't1-t2' in it
EmptyString == <<>>

\* whether TimeIntervalSet.from_strings(*intervals) can read every argument;
\* on one it cannot read it raises, before any interval set is built
parsed(strings) == \A k \in 1..Len(strings) : strings[k] # EmptyString

\* TimeIntervalSet.from_strings(*intervals): one interval per 't1-t2' argument
from_strings(strings) == [k \in 1..Len(strings) |-> <<strings[k][1], strings[k][2]>>]

\* TimeIntervalSet.to_string().split(','): the 't1-t2' arguments of a set; the
\* empty set prints as '' and ''.split(',') is the one argument ''
to_string_split(intervals) ==
    IF Len(intervals) = 0 THEN <<EmptyString>>
    ELSE [k \in 1..Len(intervals) |-> <<intervals[k][1], intervals[k][2]>>]

\* TimeIntervalSet.from_starts_and_stops(starts, stops)
from_starts_and_stops(starts, stops) == [k \in 1..Len(starts) |-> <<starts[k], stops[k]>>]

start_times(intervals) == [k \in 1..Len(intervals) |-> intervals[k][1]]
stop_times(intervals) == [k \in 1..Len(intervals) |-> intervals[k][2]]

\* threeML_config['event list']['binned fit method'] and ['unbinned fit method']
binned_fit_method == "binned fit method"
unbinned_fit_method == "unbinned fit method"

----------------------------------------------------------------------------
(* set_polynomial_fit_interval: the loop over the intervals *)

\* what one pass of the loop computes for an interval: the local t1 and t2,
\* the warnings it emits, and whether it reaches the continue
loop_pass(time_interval) ==
    LET t1  == time_interval[1]
        t2  == time_interval[2]
        t1c == IF t1 < start_time THEN start_time ELSE t1
        t2c == IF t2 > stop_time THEN stop_time ELSE t2
        out == (stop_time <= t1c) \/ (t2c <= start_time)
    IN  [t1 |-> t1c, t2 |-> t2c, dropped |-> out,
         warnings |-> (IF t1 < start_time THEN 1 ELSE 0)
                      + (IF t2 > stop_time THEN 1 ELSE 0)
                      + (IF out THEN 1 ELSE 0)]

\* the loop assigns its results to the locals t1 and t2 alone: it leaves the
\* set it iterates over as it was, and the set is what the instance stores
checked_intervals(intervals) == intervals

warnings_of(intervals) ==
    SumSeq([k \in 1..Len(intervals) |-> loop_pass(intervals[k]).warnings])

----------------------------------------------------------------------------
(* The fits *)

\* np.logical_or over the selections of (t >= start) & (t <= stop)
in_selections(t2x, intervals) ==
    \E k \in 1..Len(intervals) : t2x >= 2 * intervals[k][1] /\ t2x <= 2 * intervals[k][2]

bin_width == 1

\* np.arange(start_time, stop_time, bin_width)
these_bins ==
    [i \in 1..((stop_time - start_time + bin_width - 1) \div bin_width) |->
        start_time + (i - 1) * bin_width]

\* np.histogram(events, bins=edges)[0]: half-open bins, the last one closed
histogram(events, edges) ==
    [i \in 1..(Len(edges) - 1) |->
        Cardinality({e \in 1..Len(events) :
            /\ edges[i] <= events[e]
            /\ IF i = Len(edges) - 1 THEN events[e] <= edges[i + 1]
                                     ELSE events[e] < edges[i + 1]})]

\* the test written as order < 1: a constant background is taken for "auto"
auto_grade_below_one(order) == order < 1

\* whether the fit takes the grade from the selector
auto_grade(order) == order = -1

\* _fit_polynomials: the attributes it sets, given the user's order, the stored
\* intervals and the log-likelihoods polyfit returns for the summed counts
_fit_polynomials(order, intervals, lls) ==
    LET poly_mask == [e \in 1..Len(arrival_times) |->
                         in_selections(2 * arrival_times[e], intervals)]
        total_poly_events   == Masked(arrival_times, poly_mask)
        total_poly_energies == Masked(energies, poly_mask)
        bins          == these_bins
        \* twice the mean time of each bin
        mean_time     == [i \in 1..(Len(bins) - 1) |-> bins[i] + bins[i + 1]]
        exposure_per_bin == [i \in 1..(Len(bins) - 1) |->
                                exposure_over_interval(bins[i], bins[i + 1])]
        non_zero_mask == [i \in 1..Len(mean_time) |-> in_selections(mean_time[i], intervals)]
        grade == IF auto_grade(order)
                 THEN _fit_global_and_determine_optimum_grade(lls)
                 ELSE order
        channels == [c \in 1..n_channels |-> first_channel + c - 1]
        fit(channel) ==
            LET channel_mask == [e \in 1..Len(total_poly_energies) |->
                                    total_poly_energies[e] = channel]
                current_events == Masked(total_poly_events, channel_mask)
                cnts == histogram(current_events, bins)
            IN  polyfit(Masked(mean_time, non_zero_mask), Masked(cnts, non_zero_mask),
                        grade, Masked(exposure_per_bin, non_zero_mask))
    IN  IF Len(intervals) = 0
        THEN \* all_bkg_masks[0] of an empty list
             [raised |-> "IndexError", selector_calls |-> 0,
              grade |-> Undefined, polynomials |-> Undefined]
        ELSE [raised |-> "", selector_calls |-> IF auto_grade(order) THEN 1 ELSE 0,
              grade |-> Def(grade),
              polynomials |-> Def([c \in 1..n_channels |-> fit(channels[c])])]

\* _unbinned_fit_polynomials, likewise, with the log-likelihoods of unbinned_polyfit
_unbinned_fit_polynomials(order, intervals, lls) ==
    LET poly_exposure == SumSeq([k \in 1..Len(intervals) |->
                            exposure_over_interval(intervals[k][1], intervals[k][2])])
        poly_mask == [e \in 1..Len(arrival_times) |->
                         in_selections(2 * arrival_times[e], intervals)]
        total_poly_events   == Masked(arrival_times, poly_mask)
        total_poly_energies == Masked(energies, poly_mask)
        grade == IF auto_grade(order)
                 THEN _unbinned_fit_global_and_determine_optimum_grade(lls)
                 ELSE order
        channels == [c \in 1..n_channels |-> first_channel + c - 1]
        t_start == start_times(intervals)
        t_stop  == stop_times(intervals)
        fit(channel) ==
            LET channel_mask == [e \in 1..Len(total_poly_energies) |->
                                    total_poly_energies[e] = channel]
                current_events == Masked(total_poly_events, channel_mask)
            IN  unbinned_polyfit(current_events, grade, t_start, t_stop, poly_exposure)
    IN  IF Len(intervals) = 0
        THEN \* all_bkg_masks[0] of an empty list
             [raised |-> "IndexError", selector_calls |-> 0,
              grade |-> Undefined, polynomials |-> Undefined]
        ELSE [raised |-> "", selector_calls |-> IF auto_grade(order) THEN 1 ELSE 0,
              grade |-> Def(grade),
              polynomials |-> Def([c \in 1..n_channels |-> fit(channels[c])])]

\* the subclass's background counts of a selection: per channel, the sum over the
\* selected intervals of the polynomial's integral
counts_of(polys, selection) ==
    [c \in 1..Len(polys) |->
        SumSeq([k \in 1..Len(selection) |->
                    integral(polys[c], selection[k][1], selection[k][2])])]

\* Polynomial.integral_error(a, b): the standard error of the integral
integral_error(poly, a, b) == poly.covariance_matrix[1][1] * (b - a)

\* the subclass's background count errors of a selection: per channel, the sum
\* over the selected intervals of the error of the polynomial's integral
poly_count_err_of(polys, selection) ==
    [c \in 1..Len(polys) |->
        SumSeq([k \in 1..Len(selection) |->
                    integral_error(polys[c], selection[k][1], selection[k][2])])]

\* the subclass's set_active_time_intervals(*args): it stores the selection and,
\* when a fit exists, integrates the installed polynomials over it and stores the
\* counts and their errors
set_active_time_intervals(strings, fit_exists, polys, old_counts, old_errors) ==
    IF ~parsed(strings) \/ (fit_exists /\ ~IsDef(polys))
    THEN [raised |-> "AttributeError", time_intervals |-> Undefined,
          poly_counts |-> Undefined, poly_count_err |-> Undefined]
    ELSE [raised |-> "",
          time_intervals |-> Def(from_strings(strings)),
          poly_counts |-> IF fit_exists
                          THEN Def(counts_of(Val(polys), from_strings(strings)))
                          ELSE old_counts,
          poly_count_err |-> IF fit_exists
                             THEN Def(poly_count_err_of(Val(polys), from_strings(strings)))
                             ELSE old_errors]

----------------------------------------------------------------------------
(* The state after construction *)

NoCall == [op |-> "init", raised |-> "", selector_calls |-> 0, recomputed |-> FALSE,
           warnings |-> 0, args |-> Undefined, dest |-> Undefined, after_save |-> FALSE,
           returned |-> "", result |-> 0, query |-> Undefined,
           overwrite |-> FALSE, filename |-> Undefined, existed |-> FALSE,
           same_argument |-> FALSE, opened |-> FALSE, store_open |-> FALSE,
           report |-> Undefined]

Call(op, raised) == [NoCall EXCEPT !.op = op, !.raised = raised]

\* file names: a root and an extension, as os.path.splitext sees them
FileNames == {[root |-> "bkg", ext |-> ""], [root |-> "bkg", ext |-> ".h5"]}

Init ==
    /\ user_poly_order = -1
    /\ time_selection_exists = FALSE
    /\ poly_fit_exists = FALSE
    /\ fit_method_info = [bin_type |-> "None", fit_method |-> "None"]
    /\ poly_intervals = Undefined
    /\ unbinned = Undefined
    /\ optimal_polynomial_grade = Undefined
    /\ polynomials = Undefined
    /\ time_intervals = Undefined
    /\ poly_counts = Undefined
    /\ poly_count_err = Undefined
    /\ files = [f \in FileNames |-> Undefined]
    /\ open_stores = {}
    /\ last = NoCall
    /\ log_likelihoods = <<>>
    /\ best_grade = [selector |-> "none", grade |-> Undefined]

instance_vars == <<user_poly_order, time_selection_exists, poly_fit_exists, fit_method_info,
                   poly_intervals, unbinned, optimal_polynomial_grade, polynomials,
                   time_intervals, poly_counts, poly_count_err>>

selector_vars == <<log_likelihoods, best_grade>>

----------------------------------------------------------------------------
(* set_polynomial_fit_interval *)

\* the 'unbinned' option as the caller gives it: left out, a boolean, or the integer 1
UnbinnedOptions == {"absent", "True", "False", "1"}

\* the two modes: unbinned by default, binned on request
ModeOptions == {"absent", "False"}

\* the call from the intervals on, with the mode decided; order is the value of
\* self._user_poly_order at the call and op names the caller for the record
fit_interval(order, strings, unb, lls, op) ==
    IF ~parsed(strings)
    THEN \* from_strings raises on an argument it cannot read: nothing is stored
         \* and no fit routine is entered
         /\ last' = [Call(op, "AttributeError") EXCEPT !.args = Def(strings)]
         /\ UNCHANGED <<time_selection_exists, poly_fit_exists, fit_method_info,
                        poly_intervals, unbinned, optimal_polynomial_grade,
                        polynomials, time_intervals, poly_counts, poly_count_err>>
    ELSE
        LET intervals == checked_intervals(from_strings(strings))
            r  == IF unb THEN _unbinned_fit_polynomials(order, intervals, lls)
                         ELSE _fit_polynomials(order, intervals, lls)
            ok == r.raised = ""
            polys == IF ok THEN r.polynomials ELSE polynomials
            again == ok /\ time_selection_exists
            sel == set_active_time_intervals(to_string_split(Val(time_intervals)),
                                             TRUE, polys, poly_counts, poly_count_err)
        IN  /\ poly_intervals' = Def(intervals)
            /\ unbinned' = Def(unb)
            /\ poly_fit_exists' = TRUE
            /\ fit_method_info' =
                  [bin_type |-> IF unb THEN "Unbinned" ELSE "Binned",
                   fit_method |-> IF unb THEN unbinned_fit_method ELSE binned_fit_method]
            /\ optimal_polynomial_grade' = IF ok THEN r.grade ELSE optimal_polynomial_grade
            /\ polynomials' = polys
            /\ time_intervals' = IF again THEN sel.time_intervals ELSE time_intervals
            /\ poly_counts' = IF again THEN sel.poly_counts ELSE poly_counts
            /\ poly_count_err' = IF again THEN sel.poly_count_err ELSE poly_count_err
            /\ UNCHANGED time_selection_exists
            /\ last' = [Call(op, r.raised) EXCEPT
                            !.selector_calls = r.selector_calls,
                            !.recomputed = again,
                            !.warnings = warnings_of(from_strings(strings)),
                            !.args = Def(strings)]

set_polynomial_fit_interval(strings, option, lls) ==
    /\ UNCHANGED <<user_poly_order, files, open_stores, selector_vars>>
    /\ IF option \in {"absent", "True", "False"}
       THEN fit_interval(user_poly_order, strings, option # "False", lls, "fit")
       ELSE \* assert type(unbinned) == bool
            /\ last' = [Call("fit", "AssertionError") EXCEPT
                            !.query = Def(<<"unbinned", option>>)]
            /\ UNCHANGED <<time_selection_exists, poly_fit_exists, fit_method_info,
                           poly_intervals, unbinned, optimal_polynomial_grade,
                           polynomials, time_intervals, poly_counts, poly_count_err>>

----------------------------------------------------------------------------
(* The poly_order property *)

\* the values assigned to poly_order
OrderValues == (min_grade - 2)..(max_grade + 1)

\* the assignment made before the range is checked
__set_poly_order_assign_first(value, lls) ==
    /\ UNCHANGED <<files, open_stores, selector_vars>>
    /\ user_poly_order' = value
    /\ IF ~(-1 <= value /\ value <= 4)
       THEN /\ last' = [Call("poly_order", "AssertionError") EXCEPT
                            !.query = Def(<<"int", value>>)]
            /\ UNCHANGED <<time_selection_exists, poly_fit_exists, fit_method_info,
                           poly_intervals, unbinned, optimal_polynomial_grade,
                           polynomials, time_intervals, poly_counts, poly_count_err>>
       ELSE IF poly_fit_exists /\ time_selection_exists
            THEN fit_interval(value, to_string_split(Val(poly_intervals)),
                              Val(unbinned), lls, "poly_order")
            ELSE /\ last' = [Call("poly_order", "") EXCEPT
                                 !.query = Def(<<"int", value>>)]
                 /\ UNCHANGED <<time_selection_exists, poly_fit_exists, fit_method_info,
                                poly_intervals, unbinned, optimal_polynomial_grade,
                                polynomials, time_intervals, poly_counts, poly_count_err>>

\* the value kept only when there is a fit to redo with it
__set_poly_order_unrecorded(value, lls) ==
    /\ UNCHANGED <<files, open_stores, selector_vars>>
    /\ IF ~(-1 <= value /\ value <= 4)
       THEN /\ last' = [Call("poly_order", "AssertionError") EXCEPT
                            !.query = Def(<<"int", value>>)]
            /\ UNCHANGED instance_vars
       ELSE IF poly_fit_exists /\ time_selection_exists
            THEN /\ user_poly_order' = value
                 /\ fit_interval(value, to_string_split(Val(poly_intervals)),
                                 Val(unbinned), lls, "poly_order")
            ELSE /\ last' = [Call("poly_order", "") EXCEPT
                                 !.query = Def(<<"int", value>>)]
                 /\ UNCHANGED instance_vars

__set_poly_order(value, lls) ==
    /\ UNCHANGED <<files, open_stores, selector_vars>>
    /\ IF ~(-1 <= value /\ value <= 4)
       THEN /\ last' = [Call("poly_order", "AssertionError") EXCEPT
                            !.query = Def(<<"int", value>>)]
            /\ UNCHANGED instance_vars
       ELSE /\ user_poly_order' = value
            /\ IF poly_fit_exists /\ time_selection_exists
               THEN fit_interval(value, to_string_split(Val(poly_intervals)),
                                 Val(unbinned), lls, "poly_order")
               ELSE \* no refit; without a selection a RuntimeError is built, not raised
                    /\ last' = [Call("poly_order", "") EXCEPT
                                    !.query = Def(<<"int", value>>)]
                    /\ UNCHANGED <<time_selection_exists, poly_fit_exists, fit_method_info,
                                   poly_intervals, unbinned, optimal_polynomial_grade,
                                   polynomials, time_intervals, poly_counts, poly_count_err>>

\* the types of the values assigned to poly_order, and the one float tried
OrderTypes == {"int", "float"}
FloatValue == 2

\* the assignment poly_order = value: the type is asserted first
___set_poly_order(typ, value, lls) ==
    IF typ # "int"
    THEN \* assert type(value) is int
         /\ last' = [Call("poly_order", "AssertionError") EXCEPT
                         !.query = Def(<<typ, value>>)]
         /\ UNCHANGED <<instance_vars, files, open_stores, selector_vars>>
    ELSE __set_poly_order(value, lls)

\* __get_poly_order: reading poly_order
__get_poly_order == optimal_polynomial_grade

----------------------------------------------------------------------------
(* The signal selection *)

SelectionArgs == {<< <<start_time, start_time + 1>> >>, << <<start_time + 1, stop_time>> >>}

select_active_time_intervals(strings) ==
    LET sel == set_active_time_intervals(strings, poly_fit_exists, polynomials,
                                         poly_counts, poly_count_err)
    IN  /\ UNCHANGED <<user_poly_order, poly_fit_exists, fit_method_info, poly_intervals,
                       unbinned, optimal_polynomial_grade, polynomials, files,
                       open_stores,
                       selector_vars>>
        /\ last' = Call("select", sel.raised)
        /\ IF sel.raised = ""
           THEN /\ time_selection_exists' = TRUE
                /\ time_intervals' = sel.time_intervals
                /\ poly_counts' = sel.poly_counts
                /\ poly_count_err' = sel.poly_count_err
           ELSE UNCHANGED <<time_selection_exists, time_intervals, poly_counts, poly_count_err>>

----------------------------------------------------------------------------
(* The queries: the polynomials property, get_poly_info and the total counts *)

\* the windows [start, stop] the totals are asked over
QueryWindows == {<<start_time, stop_time>>, <<start_time + 1, stop_time>>}

RECURSIVE BooleanSeqs(_)
BooleanSeqs(n) ==
    IF n = 0 THEN {<<>>}
    ELSE {Append(m, b) : m \in BooleanSeqs(n - 1), b \in BOOLEAN}

\* the mask argument: None, or one boolean per channel
ChannelMasks == {Undefined} \cup {Def(m) : m \in BooleanSeqs(n_channels)}

\* np.sqrt(x): the non-negative root of x, kept exact as the number it is the
\* root of (the root of 32 is [root_of |-> 32], that of 16 is [root_of |-> 16])
sqrt(x) == [root_of |-> x]

\* np.ones_like(self._polynomials, dtype=np.bool) when the mask is None
mask_or_ones(mask) ==
    IF IsDef(mask) THEN Val(mask) ELSE [c \in 1..Len(Val(polynomials)) |-> TRUE]

\* the sum with the mask left out: every channel counted
total_counts_unmasked(start, stop, mask) ==
    SumSeq([c \in 1..Len(Val(polynomials)) |-> integral(Val(polynomials)[c], start, stop)])

\* get_total_poly_count: total_counts after the loop over np.asarray(polynomials)[mask]
total_counts(start, stop, mask) ==
    LET selected == Masked(Val(polynomials), mask_or_ones(mask))
    IN  SumSeq([k \in 1..Len(selected) |-> integral(selected[k], start, stop)])

\* get_total_poly_error: the square root of the summed squares of the errors
total_error(start, stop, mask) ==
    LET selected == Masked(Val(polynomials), mask_or_ones(mask))
        squares  == [k \in 1..Len(selected) |->
                        integral_error(selected[k], start, stop)
                        * integral_error(selected[k], start, stop)]
    IN  sqrt(SumSeq(squares))

\* the record of a query that returned the number x
Returned(op, start, stop, mask, x) ==
    [Call(op, "") EXCEPT !.returned = "value", !.result = x,
                         !.query = Def(<<start, stop, mask>>)]

\* the record of a query that raised
Raised(op, start, stop, mask, error) ==
    [Call(op, error) EXCEPT !.query = Def(<<start, stop, mask>>)]

\* the query answering 0 when there are no polynomials to sum
get_total_poly_count_or_zero(start, stop, mask) ==
    /\ UNCHANGED <<instance_vars, files, open_stores, selector_vars>>
    /\ last' = IF ~IsDef(polynomials)
               THEN Returned("total_count", start, stop, mask, 0)
               ELSE Returned("total_count", start, stop, mask,
                             total_counts(start, stop, mask))

\* the query keeping its answer in self._poly_counts
get_total_poly_count_cached(start, stop, mask) ==
    /\ UNCHANGED <<user_poly_order, time_selection_exists, poly_fit_exists,
                   fit_method_info, poly_intervals, unbinned, optimal_polynomial_grade,
                   polynomials, time_intervals, poly_count_err, files, open_stores,
                   selector_vars>>
    /\ IF ~IsDef(polynomials)
       THEN /\ last' = Raised("total_count", start, stop, mask, "AttributeError")
            /\ UNCHANGED poly_counts
       ELSE /\ last' = Returned("total_count", start, stop, mask,
                                total_counts(start, stop, mask))
            /\ poly_counts' = Def(<<total_counts(start, stop, mask)>>)

get_total_poly_count(start, stop, mask) ==
    /\ UNCHANGED <<instance_vars, files, open_stores, selector_vars>>
    /\ last' = IF ~IsDef(polynomials)
               THEN \* self._polynomials was never assigned
                    Raised("total_count", start, stop, mask, "AttributeError")
               ELSE Returned("total_count", start, stop, mask,
                             total_counts(start, stop, mask))

get_total_poly_error(start, stop, mask) ==
    /\ UNCHANGED <<instance_vars, files, open_stores, selector_vars>>
    /\ last' = IF ~IsDef(polynomials)
               THEN \* self._polynomials was never assigned
                    Raised("total_count_error", start, stop, mask, "AttributeError")
               ELSE Returned("total_count_error", start, stop, mask,
                             total_error(start, stop, mask))

\* what reading a fit product does: without a fit the RuntimeError is built and
\* not raised, and the call falls off its end with None
fit_product(op) ==
    IF ~poly_fit_exists THEN [Call(op, "") EXCEPT !.returned = "None"]
    ELSE IF ~IsDef(polynomials) THEN Call(op, "AttributeError")
    ELSE [Call(op, "") EXCEPT !.returned = "value"]

\* the polynomials property
read_polynomials ==
    /\ UNCHANGED <<instance_vars, files, open_stores, selector_vars>>
    /\ last' = fit_product("polynomials")

get_poly_info ==
    /\ UNCHANGED <<instance_vars, files, open_stores, selector_vars>>
    /\ last' = fit_product("get_poly_info")

----------------------------------------------------------------------------
(* get_pha_information: the rates reported for the selection *)

\* a rate counts / exposure, kept as the pair of the two; the exposure is positive
Rate(counts, exposure) == <<counts, exposure>>
zero == Rate(0, 1)
negative(rate) == rate[1] < 0

\* the subclass's self._exposure of the selection
exposure_of(selection) ==
    SumSeq([k \in 1..Len(selection) |->
                exposure_over_interval(selection[k][1], selection[k][2])])

\* the subclass's self._counts: per channel, the events inside the selection
counts_in(selection) ==
    [c \in 1..n_channels |->
        Cardinality({e \in 1..Len(arrival_times) :
            /\ energies[e] = first_channel + c - 1
            /\ in_selections(2 * arrival_times[e], selection)})]

\* the values reported as they come, negative rates included
not_clamped(values, rates) == values

\* idx = rates < 0.; values[idx] = 0.
clamped_at_zero(values, rates) ==
    [c \in 1..Len(values) |-> IF negative(rates[c]) THEN zero ELSE values[c]]

get_pha_information(use_poly) ==
    LET exposure == exposure_of(Val(time_intervals))
        called(error) == [Call("pha", error) EXCEPT !.query = Def(<<use_poly>>)]
        rates    == [c \in 1..Len(Val(poly_counts)) |->
                        Rate(Val(poly_counts)[c], exposure)]
        errors   == Val(poly_count_err)
        rate_err == [c \in 1..Len(errors) |-> Rate(errors[c], exposure)]
        counts   == counts_in(Val(time_intervals))
    IN  /\ UNCHANGED <<instance_vars, files, open_stores, selector_vars>>
        /\ last' =
              IF ~time_selection_exists
              THEN called("RuntimeError")
              ELSE IF use_poly
              THEN IF ~IsDef(poly_count_err)
                   THEN \* self._poly_count_err was never assigned
                        called("AttributeError")
                   ELSE [called("") EXCEPT
                            !.returned = "value",
                            !.report = Def([is_poisson |-> FALSE,
                                            rate |-> clamped_at_zero(rates, rates),
                                            rate_error |-> clamped_at_zero(rate_err, rates)])]
              ELSE [called("") EXCEPT
                       !.returned = "value",
                       !.report = Def([is_poisson |-> TRUE,
                                       rate |-> [c \in 1..Len(counts) |->
                                                    Rate(counts[c], exposure)],
                                       rate_error |-> Undefined])]

----------------------------------------------------------------------------
(* Persistence: save_background and restore_fit *)

\* os.path.splitext(filename)
splitext(filename) == <<filename.root, filename.ext>>

\* "%s.h5" % filename[0]
h5_name(filename) == [root |-> splitext(filename)[1], ext |-> ".h5"]

\* threeML.io.file_utils.sanitize_filename: the absolute path of the same file
sanitize_filename(filename) == filename

\* an HDF store just created: no table, no metadata
EmptyStore == [coefficients |-> Undefined, covariance |-> Undefined, metadata |-> Undefined]

\* a coefficient pandas could not fill
NaN == -(10 * 10 * 10)

\* coeff[np.isfinite(coeff)]
finite(coeff) == SelectSeq(coeff, LAMBDA x : x # NaN)

\* zip(starts, stops)
zip(starts, stops) == [k \in 1..Len(starts) |-> <<starts[k], stops[k]>>]

\* the store save_background writes for the installed fit
written_store ==
    [coefficients |-> Def([i \in 1..Len(Val(polynomials)) |->
                              Val(polynomials)[i].coefficients]),
     covariance |-> Def([i \in 1..Len(Val(polynomials)) |->
                              Val(polynomials)[i].covariance_matrix]),
     metadata |-> Def([poly_order |-> Val(optimal_polynomial_grade),
                       poly_selections |-> zip(start_times(Val(poly_intervals)),
                                               stop_times(Val(poly_intervals))),
                       unbinned |-> Val(unbinned),
                       fit_method |-> fit_method_info.fit_method])]

\* HDFStore(path): a handle opened on the file
HDFStore(handles, path) == handles \cup {path}

\* HDFStore.close()
close(handles, path) == handles \ {path}

\* a block that closes its store only where it is left by running to its end
closed_at_end_of_block(handles, path, exc_type) ==
    IF exc_type = "" THEN close(handles, path) ELSE handles

\* HDFStore.__exit__(exc_type, exc_value, traceback), which the with statement
\* calls however the block is left, with the exception that left it: it closes
__exit__(handles, path, exc_type) == close(handles, path)

\* the destination taken for free whatever is there
never_refused(exists, overwrite) == FALSE

\* os.path.exists(filename_sanitized) without overwrite: the call is refused
refused(exists, overwrite) == exists /\ ~overwrite

\* os.remove(filename_sanitized) under 'if overwrite' raised: the file is there
\* and cannot be removed
not_removed(exists, overwrite, removable) == exists /\ overwrite /\ ~removable

\* removable: whether the file system lets the destination be removed
save_background(filename, overwrite, removable) ==
    LET dest == sanitize_filename(h5_name(filename))
        \* the handles while the with-block runs
        inside == HDFStore(open_stores, dest)
        \* the call's record: whether it opened a store, and whether the store
        \* is open when the call is over
        saved(error, during, after) ==
            [Call("save", error) EXCEPT
                !.dest = Def(dest), !.overwrite = overwrite,
                !.filename = Def(filename),
                !.existed = IsDef(files[dest]),
                !.opened = dest \in during,
                !.store_open = dest \in after]
        \* the with-block left with this exception, or by running to its end
        left(error) ==
            /\ open_stores' = __exit__(inside, dest, error)
            /\ last' = saved(error, inside, __exit__(inside, dest, error))
    IN  /\ UNCHANGED <<instance_vars, selector_vars>>
        /\ IF \/ refused(IsDef(files[dest]), overwrite)
              \/ not_removed(IsDef(files[dest]), overwrite, removable)
           THEN \* raised before any store is opened
                /\ last' = saved("IOError", open_stores, open_stores)
                /\ UNCHANGED <<files, open_stores>>
           ELSE \* the old file is removed and HDFStore creates the new one
                IF ~poly_fit_exists
                THEN /\ left("RuntimeError")
                     /\ files' = [files EXCEPT ![dest] = Def(EmptyStore)]
                ELSE IF ~IsDef(polynomials)
                THEN /\ left("AttributeError")
                     /\ files' = [files EXCEPT ![dest] = Def(EmptyStore)]
                ELSE /\ left("")
                     /\ files' = [files EXCEPT ![dest] = Def(written_store)]

\* every channel rebuilt from the first row of the two tables
restored_from_first_row(store) ==
    [i \in 1..Len(Val(store.coefficients)) |->
        from_previous_fit(finite(Val(store.coefficients)[1]), Val(store.covariance)[1])]

\* the polynomials restore_fit builds from the two tables of a store
restored_polynomials(store) ==
    [i \in 1..Len(Val(store.coefficients)) |->
        from_previous_fit(finite(Val(store.coefficients)[i]), Val(store.covariance)[i])]

\* TimeIntervalSet.from_starts_and_stops(poly_selections[:,0], poly_selections[:,1])
restored_intervals(metadata) ==
    from_starts_and_stops([k \in 1..Len(metadata.poly_selections) |->
                              metadata.poly_selections[k][1]],
                          [k \in 1..Len(metadata.poly_selections) |->
                              metadata.poly_selections[k][2]])

\* the fit-type label restore_fit sets
restored_bin_type(unb) == IF unb THEN "unbinned" ELSE "binned"

\* the selection left as it was after a restore
selection_left_alone(selection_exists) == FALSE

\* if self._time_selection_exists: the selection is computed again
selection_recomputed(selection_exists) == selection_exists

restore_fit(filename) ==
    LET path  == sanitize_filename(filename)
        \* HDFStore opens for appending: a missing file is created
        store == IF IsDef(files[path]) THEN Val(files[path]) ELSE EmptyStore
        meta  == Val(store.metadata)
        polys == restored_polynomials(store)
        sel   == set_active_time_intervals(to_string_split(Val(time_intervals)),
                                           TRUE, Def(polys), poly_counts, poly_count_err)
        \* for the record: the call before was a save to this very file
        follows == last.op = "save" /\ last.raised = "" /\ last.dest = Def(path)
        \* and: the call before was a save given the same argument
        same    == last.op = "save" /\ last.raised = "" /\ last.filename = Def(filename)
        \* the handles while the with-block runs
        inside == HDFStore(open_stores, path)
        restored(error) == [Call("restore", error) EXCEPT
                               !.dest = Def(path), !.filename = Def(filename),
                               !.same_argument = same, !.opened = path \in inside,
                               !.store_open = path \in __exit__(inside, path, error)]
        \* the with-block left with this exception, or by running to its end
        left(error) == open_stores' = __exit__(inside, path, error)
    IN  /\ UNCHANGED <<user_poly_order, time_selection_exists, selector_vars>>
        /\ files' = [files EXCEPT ![path] = Def(store)]
        /\ IF ~IsDef(store.coefficients)
           THEN \* store['coefficients']
                /\ last' = restored("KeyError")
                /\ left("KeyError")
                /\ UNCHANGED <<poly_fit_exists, fit_method_info, poly_intervals, unbinned,
                               optimal_polynomial_grade, polynomials, time_intervals,
                               poly_counts, poly_count_err>>
           ELSE IF Len(meta.poly_selections) = 0
           THEN \* poly_selections[:,0] of an array of shape (0,)
                /\ last' = [restored("IndexError") EXCEPT !.after_save = follows]
                /\ left("IndexError")
                /\ polynomials' = Def(polys)
                /\ optimal_polynomial_grade' = Def(meta.poly_order)
                /\ UNCHANGED <<poly_fit_exists, fit_method_info, poly_intervals, unbinned,
                               time_intervals, poly_counts, poly_count_err>>
           ELSE /\ polynomials' = Def(polys)
                /\ optimal_polynomial_grade' = Def(meta.poly_order)
                /\ poly_intervals' = Def(restored_intervals(meta))
                /\ unbinned' = Def(meta.unbinned)
                /\ fit_method_info' = [bin_type |-> restored_bin_type(meta.unbinned),
                                       fit_method |-> meta.fit_method]
                /\ poly_fit_exists' = TRUE
                /\ time_intervals' = IF selection_recomputed(time_selection_exists)
                                      THEN sel.time_intervals ELSE time_intervals
                /\ poly_counts' = IF selection_recomputed(time_selection_exists)
                                   THEN sel.poly_counts ELSE poly_counts
                /\ poly_count_err' = IF selection_recomputed(time_selection_exists)
                                      THEN sel.poly_count_err ELSE poly_count_err
                /\ left("")
                /\ last' = [restored("") EXCEPT
                                !.recomputed = selection_recomputed(time_selection_exists),
                                !.after_save = follows]

----------------------------------------------------------------------------
(* The specifications *)

\* the log-likelihoods of the grades 0..4 whose steps are given
LogLikesOf(steps) ==
    LET RECURSIVE from(_, _)
        from(lls, k) == IF k > Len(steps) THEN lls
                        ELSE from(Append(lls, lls[Len(lls)] - steps[k]), k + 1)
    IN  from(<<0>>, 1)

\* one vector of log-likelihoods for each grade the selector can return: the
\* statistic is 9.0 up to that grade and 8.0 above it
GradedLogLikes ==
    {LogLikesOf([k \in 1..(max_grade - min_grade) |-> IF k <= g THEN 9 ELSE 8]) :
        g \in min_grade..max_grade}

\* the log-likelihoods a call can meet: they matter when the selector runs
LogLikeInputs(runs, vectors) == IF runs THEN vectors ELSE {LogLikesOf(<<0, 0, 0, 0>>)}

\* the background selections of the calls that the whole life cycle is run with:
\* none, the whole data range, its last second
FitArgs ==
    {<<>>, << <<start_time, stop_time>> >>, << <<stop_time - 1, stop_time>> >>}

FitCall ==
    \E strings \in FitArgs, option \in UnbinnedOptions :
        \E lls \in LogLikeInputs(auto_grade(user_poly_order), GradedLogLikes) :
            set_polynomial_fit_interval(strings, option, lls)

PolyOrderCall ==
    \/ \E value \in OrderValues :
          \E lls \in LogLikeInputs(auto_grade(value), GradedLogLikes) :
              ___set_poly_order("int", value, lls)
    \/ ___set_poly_order("float", FloatValue, LogLikesOf(<<0, 0, 0, 0>>))

SelectCall == \E strings \in SelectionArgs : select_active_time_intervals(strings)

Next == FitCall \/ PolyOrderCall \/ SelectCall

\* the instance: fits, assignments to poly_order and signal selections
Spec == Init /\ [][Next]_vars

\* two of these vectors: the selector returns 0 or 2
TwoLogLikes == {LogLikesOf(<<8, 8, 8, 8>>), LogLikesOf(<<9, 9, 8, 8>>)}

IntervalFitCall ==
    \E strings \in IntervalArgs, option \in ModeOptions :
        \E lls \in LogLikeInputs(auto_grade(user_poly_order), TwoLogLikes) :
            set_polynomial_fit_interval(strings, option, lls)

IntervalNext == IntervalFitCall \/ SelectCall

\* the instance fitted on every background selection the bounds allow
IntervalSpec == Init /\ [][IntervalNext]_vars

StoredFitCall ==
    \E strings \in FitArgs, option \in ModeOptions :
        \E lls \in LogLikeInputs(auto_grade(user_poly_order), TwoLogLikes) :
            set_polynomial_fit_interval(strings, option, lls)

SaveCall == \E filename \in FileNames, overwrite \in BOOLEAN, removable \in BOOLEAN :
                save_background(filename, overwrite, removable)

RestoreCall == \E filename \in FileNames : restore_fit(filename)

StoredSelectCall ==
    select_active_time_intervals(<< <<start_time, start_time + 1>> >>)

\* the saves of the stored life cycle: one file name, given without extension
StoredSaveCall ==
    \E overwrite \in BOOLEAN, removable \in BOOLEAN :
        save_background([root |-> "bkg", ext |-> ""], overwrite, removable)

\* the restores of the stored life cycle: the file those saves write
StoredRestoreCall == restore_fit([root |-> "bkg", ext |-> ".h5"])

StoreNext == StoredFitCall \/ StoredSelectCall \/ StoredSaveCall \/ StoredRestoreCall

\* the instance with its fits saved and restored
StoreSpec == Init /\ [][StoreNext]_vars

SelectorInit ==
    /\ user_poly_order = -1
    /\ time_selection_exists = FALSE
    /\ poly_fit_exists = FALSE
    /\ fit_method_info = [bin_type |-> "None", fit_method |-> "None"]
    \* the selectors are called on a new instance, or as a fit calls them, with
    \* the background intervals stored
    /\ poly_intervals \in {Undefined, Def(<< <<start_time, stop_time>> >>)}
    /\ unbinned = Undefined
    /\ optimal_polynomial_grade = Undefined
    /\ polynomials = Undefined
    /\ time_intervals = Undefined
    /\ poly_counts = Undefined
    /\ poly_count_err = Undefined
    /\ files = [f \in FileNames |-> Undefined]
    /\ open_stores = {}
    /\ last = NoCall
    /\ log_likelihoods \in LogLikeVectors
    /\ best_grade = [selector |-> "none", grade |-> Undefined]

BinnedSelectorCall ==
    /\ best_grade' = [selector |-> "binned",
                      grade |-> Def(_fit_global_and_determine_optimum_grade(log_likelihoods))]
    /\ UNCHANGED <<instance_vars, files, open_stores, last, log_likelihoods>>

UnbinnedSelectorCall ==
    /\ UNCHANGED <<instance_vars, files, open_stores, log_likelihoods>>
    /\ IF ~IsDef(poly_intervals)
       THEN \* t_start = self._poly_intervals.start_times: never assigned; no
            \* regression is run and no grade returned
            /\ best_grade' = [selector |-> "unbinned", grade |-> Undefined]
            /\ last' = Call("unbinned_selector", "AttributeError")
       ELSE /\ best_grade' =
                  [selector |-> "unbinned",
                   grade |-> Def(_unbinned_fit_global_and_determine_optimum_grade(
                                     log_likelihoods))]
            /\ UNCHANGED last

SelectorNext == BinnedSelectorCall \/ UnbinnedSelectorCall

\* the two grade selectors alone, over the log-likelihoods a regressor can return
SelectorSpec == SelectorInit /\ [][SelectorNext]_vars

PathFitCall ==
    \E option \in ModeOptions :
        \E lls \in LogLikeInputs(auto_grade(user_poly_order), TwoLogLikes) :
            set_polynomial_fit_interval(<< <<start_time, stop_time>> >>, option, lls)

PathNext == PathFitCall \/ SaveCall \/ RestoreCall

\* one fit saved and restored under every file name
PathSpec == Init /\ [][PathNext]_vars

QueryFitCall ==
    \E strings \in FitArgs, option \in ModeOptions :
        \E lls \in LogLikeInputs(auto_grade(user_poly_order), TwoLogLikes) :
            set_polynomial_fit_interval(strings, option, lls)

ReadPolynomialsCall == read_polynomials

GetPolyInfoCall == get_poly_info

TotalCountCall ==
    \E window \in QueryWindows, mask \in ChannelMasks :
        get_total_poly_count(window[1], window[2], mask)

TotalErrorCall ==
    \E window \in QueryWindows, mask \in ChannelMasks :
        get_total_poly_error(window[1], window[2], mask)

QueryNext ==
    \/ QueryFitCall
    \/ ReadPolynomialsCall
    \/ GetPolyInfoCall
    \/ TotalCountCall
    \/ TotalErrorCall

\* the instance fitted and asked for its fit products
QuerySpec == Init /\ [][QueryNext]_vars

\* the coefficients of a constant background saved by an earlier session:
\* a negative and a positive one
SavedCoefficients == {-4, 6}

\* the files such a session left: one grade-0 fit of the whole data range
SavedStores ==
    {[coefficients |-> Def([c \in 1..n_channels |-> <<coeff[c]>>]),
      covariance |-> Def([c \in 1..n_channels |-> << <<2>> >>]),
      metadata |-> Def([poly_order |-> 0,
                        poly_selections |-> << <<start_time, stop_time>> >>,
                        unbinned |-> TRUE,
                        fit_method |-> unbinned_fit_method])] :
        coeff \in [1..n_channels -> SavedCoefficients]}

\* a new instance beside a file saved earlier
RateInit ==
    /\ user_poly_order = -1
    /\ time_selection_exists = FALSE
    /\ poly_fit_exists = FALSE
    /\ fit_method_info = [bin_type |-> "None", fit_method |-> "None"]
    /\ poly_intervals = Undefined
    /\ unbinned = Undefined
    /\ optimal_polynomial_grade = Undefined
    /\ polynomials = Undefined
    /\ time_intervals = Undefined
    /\ poly_counts = Undefined
    /\ poly_count_err = Undefined
    /\ \E store \in SavedStores :
          files = [f \in FileNames |-> IF f.ext = ".h5" THEN Def(store) ELSE Undefined]
    /\ open_stores = {}
    /\ last = NoCall
    /\ log_likelihoods = <<>>
    /\ best_grade = [selector |-> "none", grade |-> Undefined]

PhaCall == \E use_poly \in BOOLEAN : get_pha_information(use_poly)

RateNext == RestoreCall \/ SelectCall \/ PhaCall \/ TotalCountCall

\* a restored fit with rates of both signs, selected and reported
RateSpec == RateInit /\ [][RateNext]_vars

----------------------------------------------------------------------------
(* The claims *)

\* whether a user's interval lies wholly outside the data
outside(i) == stop_time <= i[1] \/ i[2] <= start_time

\* the interval the clipping is meant to leave
clipped(i) == <<IF i[1] < start_time THEN start_time ELSE i[1],
                IF i[2] > stop_time THEN stop_time ELSE i[2]>>

member(x, seq) == \E k \in 1..Len(seq) : seq[k] = x

\* C1: after set_polynomial_fit_interval is given an interval that overlaps the
\* data and reaches beyond them, the stored background intervals hold the
\* clipped interval (max(t1, start_time), min(t2, stop_time)) in place of it.
C1_ClippedIntervalStored ==
    (last.op = "fit" /\ last.raised = "") =>
        \A k \in 1..Len(Val(last.args)) :
            LET i == Val(last.args)[k]
            IN  (~outside(i) /\ (i[1] < start_time \/ i[2] > stop_time)) =>
                    /\ member(clipped(i), Val(poly_intervals))
                    /\ ~member(i, Val(poly_intervals))

\* the arguments that remain when the intervals outside the data are left out
RECURSIVE without_outside(_)
without_outside(strings) ==
    IF strings = <<>> THEN <<>>
    ELSE (IF outside(Head(strings)) THEN <<>> ELSE <<Head(strings)>>)
         \o without_outside(Tail(strings))

\* C2: when set_polynomial_fit_interval is given an interval wholly outside the
\* data together with one inside, the call does not fail, the outside interval
\* is not stored, and the stored intervals and the fit are those of the call
\* without that interval.
C2_OutsideIntervalDropped ==
    (/\ last.op = "fit" /\ last.raised # "AssertionError"
     /\ \E k \in 1..Len(Val(last.args)) : outside(Val(last.args)[k])
     /\ \E k \in 1..Len(Val(last.args)) : ~outside(Val(last.args)[k])) =>
        LET kept == checked_intervals(from_strings(without_outside(Val(last.args))))
            unb  == Val(unbinned)
            grade == Val(optimal_polynomial_grade)
            alone == IF unb THEN _unbinned_fit_polynomials(grade, kept, <<>>)
                            ELSE _fit_polynomials(grade, kept, <<>>)
        IN  /\ last.raised = ""
            /\ \A k \in 1..Len(Val(poly_intervals)) : ~outside(Val(poly_intervals)[k])
            /\ Val(poly_intervals) = kept
            /\ polynomials = alone.polynomials

\* C3: every interval of a stored background interval set satisfies
\* start_time <= t1 < t2 <= stop_time.
C3_StoredIntervalsInsideData ==
    IsDef(poly_intervals) =>
        \A k \in 1..Len(Val(poly_intervals)) :
            LET i == Val(poly_intervals)[k]
            IN  start_time <= i[1] /\ i[1] < i[2] /\ i[2] <= stop_time

\* the statistic D_k = 2 * (L_k - L_k+1), k = 0..3, of the selector's input (in
\* half units), and whether it reaches 9.0
D(k) == 2 * (log_likelihoods[k + 1] - log_likelihoods[k + 2])
reaches(k) == D(k) >= 2 * 9

\* C4: the grade selector, binned or unbinned, returns the largest k + 1 with
\* D_k >= 9.0, and 0 when no D_k reaches 9.0.
C4_LargestPassingGrade ==
    IsDef(best_grade.grade) =>
        LET passing == {k \in 0..3 : reaches(k)}
            chosen  == Val(best_grade.grade)
        IN  IF passing = {} THEN chosen = 0
            ELSE /\ (chosen - 1) \in passing
                 /\ \A k \in passing : k + 1 <= chosen

\* C4, its case: D_0 = 9.0 and D_1 >= 9.0 with D_2, D_3 < 9.0 gave grade 2
C4_Witness ==
    /\ best_grade.selector = "binned"
    /\ D(0) = 2 * 9 /\ reaches(1) /\ ~reaches(2) /\ ~reaches(3)
    /\ best_grade.grade = Def(2)

\* C5 as stated: if D_k < 9.0 for some k, the selected grade is not raised above
\* k by a later D_j >= 9.0.
C5_NoGradeAboveFirstRejection ==
    IsDef(best_grade.grade) =>
        \A k \in 0..3 : ~reaches(k) => Val(best_grade.grade) <= k

\* C5, amended: if D_j < 9.0 for every j >= k, the selected grade is at most k
\* (a D_k < 9.0 bounds the grade only when no later D_j reaches 9.0).
C5_NoGradeAboveLastPassing ==
    IsDef(best_grade.grade) =>
        \A k \in 0..3 :
            (\A j \in k..3 : ~reaches(j)) => Val(best_grade.grade) <= k

\* C5, its case: D_0 passes, D_1..D_3 do not, and the unbinned selector stops at 1
C5_Witness ==
    /\ best_grade.selector = "unbinned"
    /\ reaches(0) /\ ~reaches(1) /\ ~reaches(2) /\ ~reaches(3)
    /\ best_grade.grade = Def(1)

\* whether the last call got as far as fitting
fit_started == IsDef(last.args) /\ parsed(Val(last.args))

\* C6: with a user-set degree d in 0..4 a fit started by
\* set_polynomial_fit_interval never runs the grade selector, and the degree
\* stored and used for every channel is d; the selector runs only for -1.
C6_FixedDegreeSkipsSelector ==
    fit_started =>
        /\ (user_poly_order \in 0..4) =>
              /\ last.selector_calls = 0
              /\ (last.raised = "") =>
                    /\ optimal_polynomial_grade = Def(user_poly_order)
                    /\ Len(Val(polynomials)) = n_channels
                    /\ \A c \in 1..n_channels :
                          Len(Val(polynomials)[c].coefficients) = user_poly_order + 1
        /\ (last.selector_calls > 0) => user_poly_order = -1

\* C6, its case: a binned fit at the user's degree 3, and no selector call
C6_Witness ==
    /\ last.op = "fit" /\ last.raised = "" /\ last.selector_calls = 0
    /\ user_poly_order = 3 /\ unbinned = Def(FALSE)
    /\ optimal_polynomial_grade = Def(3)

\* C7: whenever the instance reports that a fit exists, the degree read through
\* poly_order is a value of 0..4, never -1 and never undefined.
C7_FitDegreeConcrete ==
    poly_fit_exists =>
        /\ IsDef(__get_poly_order)
        /\ Val(__get_poly_order) \in 0..4

\* C8: save_background followed by restore_fit of the saved file leaves the
\* instance with the same degree, the same background intervals and, for every
\* channel, the same coefficients and covariance matrix as before the save.
C8_SaveRestoreRoundTrip ==
    [][(/\ last.op = "save" /\ last.raised = ""
        /\ last'.op = "restore" /\ last'.dest = last.dest) =>
            /\ optimal_polynomial_grade' = optimal_polynomial_grade
            /\ poly_intervals' = poly_intervals
            /\ polynomials' = polynomials
            /\ Len(Val(polynomials')) = n_channels]_vars

\* C8, its case: a fit of grade 2 restored from the file it was just saved to
C8_Witness ==
    /\ last.op = "restore" /\ last.raised = "" /\ last.after_save
    /\ optimal_polynomial_grade = Def(2)
    /\ Val(polynomials)[1] # Val(polynomials)[2]

\* C9: when a fit exists, with or without a signal selection, assigning a valid
\* degree to poly_order refits on the stored intervals in the stored mode, and
\* the stored degree is the assigned one when it is not -1.
C9_DegreeChangeRefits ==
    (/\ last.op = "poly_order" /\ last.raised = ""
     /\ poly_fit_exists /\ IsDef(polynomials)) =>
        /\ fit_started
        /\ (user_poly_order # -1) => optimal_polynomial_grade = Def(user_poly_order)

\* C10: in every state where a fit and a selection exist, the selection's
\* background counts were computed from the installed polynomials.
C10_SelectionNeverStale ==
    (poly_fit_exists /\ IsDef(polynomials) /\ time_selection_exists) =>
        poly_counts = Def(counts_of(Val(polynomials), Val(time_intervals)))

\* C11: a restore_fit that completes while a selection exists computes the
\* selection again from the restored polynomials, once the polynomials, the
\* degree, the intervals and the metadata of the file are installed and the
\* fit is flagged; without a selection it computes nothing.
C11_RestoreRecomputesSelection ==
    [][(last'.op = "restore" /\ last'.raised = "") =>
          LET meta == Val(Val(files'[Val(last'.dest)]).metadata)
          IN  /\ poly_fit_exists'
              /\ optimal_polynomial_grade' = Def(meta.poly_order)
              /\ unbinned' = Def(meta.unbinned)
              /\ fit_method_info'.fit_method = meta.fit_method
              /\ Val(poly_intervals') = meta.poly_selections
              /\ IF time_selection_exists
                 THEN /\ last'.recomputed
                      /\ time_intervals' = time_intervals
                      /\ poly_counts' =
                            Def(counts_of(Val(polynomials'), Val(time_intervals)))
                 ELSE /\ ~last'.recomputed
                      /\ UNCHANGED <<time_intervals, poly_counts>>]_vars

\* C11, its case: a restore recomputed the selection over a grade-2 fit
C11_Witness ==
    /\ last.op = "restore" /\ last.raised = "" /\ last.recomputed
    /\ time_selection_exists
    /\ optimal_polynomial_grade = Def(2)
    /\ poly_counts = Def(counts_of(Val(polynomials), Val(time_intervals)))

\* C12: get_poly_info and the polynomials property, called while no fit
\* exists, raise an error and return nothing.
C12_NoFitProductRaises ==
    (last.op \in {"polynomials", "get_poly_info"} /\ ~poly_fit_exists) =>
        /\ last.raised # ""
        /\ last.returned = ""

\* C13: get_total_poly_count and get_total_poly_error, called while no fit has
\* produced the polynomials, raise an error and return no number.
C13_TotalsRaiseWithoutModels ==
    (last.op \in {"total_count", "total_count_error"} /\ ~IsDef(polynomials)) =>
        /\ last.raised # ""
        /\ last.returned = ""

\* C13, its case: the total asked for after a fit that failed before producing
\* any polynomial
C13_Witness ==
    /\ last.op = "total_count" /\ last.raised = "AttributeError"
    /\ poly_fit_exists /\ ~IsDef(polynomials)

\* C14: a fit on an empty background interval set fails with a descriptive
\* precondition error: the call raises, what it raises is not the IndexError of
\* indexing the empty list of masks, and it installs no polynomials.
C14_EmptySetFailsDescriptively ==
    (fit_started /\ Len(from_strings(Val(last.args))) = 0) =>
        /\ last.raised # ""
        /\ last.raised # "IndexError"

\* C15: whenever a fit exists there is one polynomial per channel, n_channels
\* in all, each of the stored degree.
C15_OneModelPerChannel ==
    poly_fit_exists =>
        /\ IsDef(polynomials)
        /\ Len(Val(polynomials)) = n_channels
        /\ \A c \in 1..n_channels :
              Len(Val(polynomials)[c].coefficients) = Val(optimal_polynomial_grade) + 1

\* C16: in every state with polynomials installed, the polynomials, the degree,
\* the mode, the method and the background intervals are those of one fit:
\* fitting the stored intervals in the stored mode at the stored degree gives
\* the installed polynomials, and the metadata are those of that mode.
C16_FitStateFromOneFit ==
    IsDef(polynomials) =>
        LET unb   == Val(unbinned)
            grade == Val(optimal_polynomial_grade)
            one   == IF unb THEN _unbinned_fit_polynomials(grade, Val(poly_intervals), <<>>)
                            ELSE _fit_polynomials(grade, Val(poly_intervals), <<>>)
        IN  /\ one.polynomials = polynomials
            /\ fit_method_info =
                  [bin_type |-> IF unb THEN "Unbinned" ELSE "Binned",
                   fit_method |-> IF unb THEN unbinned_fit_method ELSE binned_fit_method]

\* C17: get_total_poly_count returns the sum of the integrals over [start, stop]
\* of the polynomials of exactly the channels the mask selects, each once, and
\* of all n_channels channels when no mask is given.
C17_TotalCountSumsSelectedChannels ==
    (last.op = "total_count" /\ last.raised = "") =>
        LET start == Val(last.query)[1]
            stop  == Val(last.query)[2]
            mask  == Val(last.query)[3]
            chosen(c) == IF IsDef(mask) THEN Val(mask)[c] ELSE TRUE
            RECURSIVE upto(_)
            upto(c) == IF c = 0 THEN 0
                       ELSE upto(c - 1)
                            + (IF chosen(c) THEN integral(Val(polynomials)[c], start, stop)
                                            ELSE 0)
        IN  /\ last.returned = "value"
            /\ last.result = upto(n_channels)

\* C17, its case: the mask selects the second channel alone, and the total is
\* that channel's integral, less than the total of all channels
C17_Witness ==
    /\ last.op = "total_count" /\ last.raised = ""
    /\ Val(last.query)[3] = Def(<<FALSE, TRUE>>)
    /\ last.result = integral(Val(polynomials)[2], Val(last.query)[1], Val(last.query)[2])
    /\ last.result > 0
    /\ last.result < total_counts(Val(last.query)[1], Val(last.query)[2], Undefined)

\* C18: get_total_poly_count changes nothing of the instance nor of the files,
\* and a second call with the same arguments returns what the first returned.
C18_TotalCountPure ==
    [][(last'.op = "total_count") =>
          /\ UNCHANGED <<instance_vars, files>>
          /\ (last.op = "total_count" /\ last.query = last'.query) =>
                /\ last'.result = last.result
                /\ last'.raised = last.raised]_vars

\* C18, its case: the total of all channels over the whole data, asked of a fit
\* with a selection made
C18_Witness ==
    /\ last.op = "total_count" /\ last.returned = "value"
    /\ last.query = Def(<<start_time, stop_time, Undefined>>)
    /\ last.result > 0
    /\ poly_fit_exists

\* C19: save_background to a destination that exists, without overwrite, raises
\* IOError and changes neither the files nor the instance; an existing
\* destination is replaced only by a call with overwrite.
C19_ExistingDestinationKept ==
    [][(last'.op = "save") =>
          LET dest == Val(last'.dest)
          IN  /\ (IsDef(files[dest]) /\ ~last'.overwrite) =>
                    /\ last'.raised = "IOError"
                    /\ UNCHANGED <<files, instance_vars>>
              /\ (IsDef(files[dest]) /\ files'[dest] # files[dest]) => last'.overwrite]_vars

\* C19, its case: a save refused, the destination holding a saved fit
C19_Witness ==
    /\ last.op = "save" /\ last.raised = "IOError" /\ ~last.overwrite
    /\ IsDef(files[Val(last.dest)])
    /\ IsDef(Val(files[Val(last.dest)]).coefficients)

\* C20: a poly_order that is no integer or lies outside [-1, 4], and an unbinned
\* option that is no boolean, are rejected with an AssertionError before
\* anything changes: no fit runs and the instance is as it was.
C20_ConfigurationErrorsRejected ==
    [][(last'.op \in {"poly_order", "fit"} /\ IsDef(last'.query)) =>
          LET q == Val(last'.query)
              invalid == IF last'.op = "poly_order"
                         THEN q[1] # "int" \/ q[2] < -1 \/ q[2] > 4
                         ELSE q[2] \notin {"True", "False"}
          IN  invalid =>
                /\ last'.raised = "AssertionError"
                /\ last'.selector_calls = 0
                /\ ~IsDef(last'.args)
                /\ ~last'.recomputed
                /\ UNCHANGED instance_vars]_vars

\* C20, its case: a float rejected where an integer would have refitted
C20_Witness ==
    /\ last.op = "poly_order" /\ last.raised = "AssertionError"
    /\ last.query = Def(<<"float", FloatValue>>)
    /\ poly_fit_exists /\ IsDef(polynomials) /\ time_selection_exists
    /\ user_poly_order # FloatValue

\* C21: when save_background or restore_fit returns or raises, the store it
\* opened is closed, also when it fails inside the with-block.
C21_StoreClosedOnEveryExit ==
    (last.op \in {"save", "restore"}) =>
        /\ open_stores = {}
        /\ ~last.store_open

\* C21, its case: restore_fit opened a store without the coefficients table,
\* raised KeyError inside the block, and the store is closed
C21_Witness ==
    /\ last.op = "restore" /\ last.raised = "KeyError"
    /\ last.opened /\ Val(last.dest) \notin open_stores

\* C22: get_pha_information(use_poly=True) reports, for every channel whose
\* polynomial rate is negative, the rate 0 and the rate error 0, and for every
\* other channel the rate and error as they are; the stored counts and
\* get_total_poly_count keep the negative values.
C22_NegativeRatesClampedAtReport ==
    /\ (last.op = "pha" /\ last.raised = "" /\ last.query = Def(<<TRUE>>)) =>
          LET exposure == exposure_of(Val(time_intervals))
              errors   == poly_count_err_of(Val(polynomials), Val(time_intervals))
              report   == Val(last.report)
          IN  \A c \in 1..n_channels :
                  IF Val(poly_counts)[c] < 0
                  THEN report.rate[c] = zero /\ report.rate_error[c] = zero
                  ELSE /\ report.rate[c] = Rate(Val(poly_counts)[c], exposure)
                       /\ report.rate_error[c] = Rate(errors[c], exposure)
    /\ (last.op = "total_count" /\ last.raised = "") =>
          LET start == Val(last.query)[1]
              stop  == Val(last.query)[2]
              mask  == Val(last.query)[3]
              RECURSIVE below(_)
              below(c) ==
                  IF c > n_channels THEN 0
                  ELSE (IF IsDef(mask) /\ ~Val(mask)[c] THEN 0
                        ELSE Val(polynomials)[c].coefficients[1] * (stop - start))
                       + below(c + 1)
          IN  last.result = below(1)

\* C22, its case: the first channel's counts are negative and reported as rate
\* 0 with error 0, the second channel's are positive and reported as they are
C22_Witness ==
    /\ last.op = "pha" /\ last.raised = "" /\ last.query = Def(<<TRUE>>)
    /\ Val(poly_counts)[1] < 0 /\ Val(poly_counts)[2] > 0
    /\ Val(last.report).rate[1] = zero
    /\ Val(last.report).rate_error[1] = zero
    /\ Val(last.report).rate[2][1] > 0

\* C23: the instance reports a fit only once a fit or a restore has completed:
\* in every state fit-exists implies a polynomial for every channel and a stored
\* degree, and a fit that raises on an instance without polynomials leaves the
\* instance without a fit.
C23_FitExistsOnlyAfterSuccess ==
    /\ poly_fit_exists =>
          /\ IsDef(polynomials)
          /\ IsDef(optimal_polynomial_grade)
          /\ Len(Val(polynomials)) = n_channels
    /\ (fit_started /\ last.raised # "" /\ ~IsDef(polynomials)) => ~poly_fit_exists

\* C24: a save_background that fails for want of a fit leaves the destination
\* as it was: where there was no file before the call there is none after it.
C24_FailedSaveLeavesDestination ==
    (last.op = "save" /\ last.raised = "RuntimeError" /\ ~last.existed) =>
        ~IsDef(files[Val(last.dest)])

\* C25: restore_fit given the argument save_background was just given opens the
\* file that save_background wrote, and completes.
C25_RestoreOpensSavedPath ==
    (last.op = "restore" /\ last.same_argument) =>
        /\ last.dest = Def(sanitize_filename(h5_name(Val(last.filename))))
        /\ last.raised = ""

\* C26: after save_background and restore_fit of the saved file, the unbinned
\* flag, the fit-type label and the fit method are those a fit of that mode sets.
C26_RestoredModeMetadata ==
    (last.op = "restore" /\ last.raised = "" /\ last.after_save) =>
        LET unb == Val(unbinned)
        IN  fit_method_info =
                [bin_type |-> IF unb THEN "Unbinned" ELSE "Binned",
                 fit_method |-> IF unb THEN unbinned_fit_method ELSE binned_fit_method]

\* C27: a valid degree assigned to poly_order while no fit exists runs no fit,
\* leaves the instance without a fit and is recorded; fits, selections and
\* refused assignments leave the recorded value alone, and a fit that completes
\* is made at the recorded value for every channel, running the selector
\* exactly when that value is -1.
C27_AssignedDegreeUsedByNextFit ==
    [][/\ (last'.op = "poly_order" /\ last'.raised = "" /\ ~poly_fit_exists) =>
             /\ user_poly_order' = Val(last'.query)[2]
             /\ ~poly_fit_exists'
             /\ last'.selector_calls = 0 /\ ~IsDef(last'.args)
             /\ UNCHANGED <<time_selection_exists, fit_method_info, poly_intervals,
                            unbinned, optimal_polynomial_grade, polynomials,
                            time_intervals, poly_counts, poly_count_err>>
       /\ (last'.op \in {"fit", "select"}) => user_poly_order' = user_poly_order
       /\ (last'.op = "poly_order" /\ last'.raised = "AssertionError") =>
             user_poly_order' = user_poly_order
       /\ (last'.op = "fit" /\ last'.raised = "" /\ IsDef(last'.args)) =>
             IF user_poly_order = -1
             THEN last'.selector_calls = 1
             ELSE /\ last'.selector_calls = 0
                  /\ optimal_polynomial_grade' = Def(user_poly_order)
                  /\ \A c \in 1..n_channels :
                        Len(Val(polynomials')[c].coefficients) = user_poly_order + 1]_vars

\* C27, its case: no fit exists and the degree 1 has just been recorded
C27_Witness ==
    /\ last.op = "poly_order" /\ last.raised = ""
    /\ last.query = Def(<<"int", 1>>)
    /\ ~poly_fit_exists /\ user_poly_order = 1

====
